---- MODULE Spec2Model ----
(***************************************************************************)
(* Model of server.py: the /api/candles handler (get_candles), the /health *)
(* handler, and the single event loop that runs them.                      *)
(*                                                                         *)
(* Strings that the code trims, upper-cases or looks up are sequences of   *)
(* one-character strings (<<"1","h">> is "1h").  A formatted detail string *)
(* is the concatenation of its pieces.  A table cell is <<>> for NaN and   *)
(* <<v>> for the number v.  Row timestamps are whole seconds, as the       *)
(* provider's bars are.                                                    *)
(***************************************************************************)
EXTENDS Integers, Sequences, FiniteSets, TLC

\* ------------------------------------------------------------------ bounds
NumReqs == 2
MaxTfLen == 2
MaxPad == 1
MaxRows == 11
MaxBad == 1
BarSeconds == 60

\* ------------------------------------------------------- program constants
DefaultLimit == 300
MinCandles == 10
MsPerSecond == 1000

None == "None"
NaN == <<>>

Reqs == 1..NumReqs

\* ------------------------------------------------------------ TIMEFRAME_MAP
\* The dict in insertion order.
TIMEFRAME_MAP ==
  << [key |-> <<"Y">>,         interval |-> "3mo"],
     [key |-> <<"Q">>,         interval |-> "3mo"],
     [key |-> <<"M">>,         interval |-> "1mo"],
     [key |-> <<"W">>,         interval |-> "1wk"],
     [key |-> <<"D">>,         interval |-> "1d"],
     [key |-> <<"1","H">>,     interval |-> "1h"],
     [key |-> <<"3","0","M">>, interval |-> "30m"],
     [key |-> <<"1","5","M">>, interval |-> "15m"] >>

\* TIMEFRAME_MAP.get(k): the value of the entry with key k, else None.
MapGet(k) ==
  IF \E i \in 1..Len(TIMEFRAME_MAP) : TIMEFRAME_MAP[i].key = k
  THEN TIMEFRAME_MAP[CHOOSE i \in 1..Len(TIMEFRAME_MAP) : TIMEFRAME_MAP[i].key = k].interval
  ELSE None

\* ", ".join(TIMEFRAME_MAP.keys())
RECURSIVE JoinKeys(_)
JoinKeys(n) ==
  IF n = 0 THEN <<>>
  ELSE IF n = 1 THEN TIMEFRAME_MAP[1].key
  ELSE JoinKeys(n - 1) \o <<", ">> \o TIMEFRAME_MAP[n].key

Supported == JoinKeys(Len(TIMEFRAME_MAP))

\* ------------------------------------------------------------ str methods
Whitespace == {" ", "\t"}

LowerToUpper ==
  [c \in {"y", "q", "m", "w", "d", "h"} |->
     CASE c = "y" -> "Y" [] c = "q" -> "Q" [] c = "m" -> "M" [] c = "w" -> "W"
       [] c = "d" -> "D" [] c = "h" -> "H"]

UpperChar(c) == IF c \in DOMAIN LowerToUpper THEN LowerToUpper[c] ELSE c

\* str.upper()
Upper(s) == [i \in 1..Len(s) |-> UpperChar(s[i])]

RECURSIVE LStrip(_)
LStrip(s) == IF s # <<>> /\ Head(s) \in Whitespace THEN LStrip(Tail(s)) ELSE s

RECURSIVE RStrip(_)
RStrip(s) ==
  IF s # <<>> /\ s[Len(s)] \in Whitespace THEN RStrip(SubSeq(s, 1, Len(s) - 1)) ELSE s

\* str.strip()
Strip(s) == RStrip(LStrip(s))

\* timeframe.strip().upper()
NormalizeKey(timeframe) == Upper(Strip(timeframe))

\* PeriodFor without the branch for "1H"
PeriodFor_NoHourly(k) ==
  IF k \in {<<"Y">>, <<"Q">>, <<"M">>} THEN "max"
  ELSE IF k = <<"W">> THEN "10y"
  ELSE IF k = <<"D">> THEN "2y"
  ELSE "30d"

\* the if/elif chain choosing the period
PeriodFor(k) ==
  IF k \in {<<"Y">>, <<"Q">>, <<"M">>} THEN "max"
  ELSE IF k = <<"W">> THEN "10y"
  ELSE IF k = <<"D">> THEN "2y"
  ELSE IF k = <<"1","H">> THEN "730d"
  ELSE "30d"

\* ------------------------------------------------- the collaborator's table
PriceColumns == {"Open", "High", "Low", "Close"}
AllColumns == PriceColumns \cup {"Volume"}

\* Row i of a table: index timestamp i*BarSeconds (seconds), one cell per
\* column; the cell of column nanCol (if any) is NaN.
Cell(i, c, nanCol) ==
  IF c = nanCol THEN NaN
  ELSE IF c = "Open" THEN <<10 * i + 1>>
  ELSE IF c = "High" THEN <<10 * i + 3>>
  ELSE IF c = "Low" THEN <<10 * i>>
  ELSE IF c = "Close" THEN <<10 * i + 2>>
  ELSE <<100 * i>>

MkRow(i, nanCol, columns) ==
  [ts |-> i * BarSeconds, cols |-> [c \in columns |-> Cell(i, c, nanCol)]]

\* A table of n rows; bad maps some row numbers to the column that is NaN there.
MkTable(n, bad, columns, dup) ==
  [kind |-> "table",
   rows |-> [i \in 1..n |-> MkRow(i, IF i \in DOMAIN bad THEN bad[i] ELSE "", columns)],
   dupLabels |-> dup,
   msg |-> ""]

MkRaise(m) == [kind |-> "raise", rows |-> <<>>, dupLabels |-> FALSE, msg |-> m]

NoResult == [kind |-> "none", rows |-> <<>>, dupLabels |-> FALSE, msg |-> ""]

\* IsEmpty testing for a missing table instead of a table without rows
IsEmpty_OnlyMissing(df) == df.kind = "none"

\* df.empty
IsEmpty(df) == Len(df.rows) = 0

HasNaN(row) == \E c \in DOMAIN row.cols : row.cols[c] = NaN

\* df.dropna(): drops every row that has a NaN in any column.
RECURSIVE DropNaRows(_)
DropNaRows(rows) ==
  IF rows = <<>> THEN <<>>
  ELSE IF HasNaN(Head(rows)) THEN DropNaRows(Tail(rows))
  ELSE <<Head(rows)>> \o DropNaRows(Tail(rows))

DropNa(df) == [df EXCEPT !.rows = DropNaRows(df.rows)]

\* int(row['Volume']) if 'Volume' in row and not math.isnan(row['Volume']) else 0
VolumeOf(row) ==
  IF "Volume" \in DOMAIN row.cols /\ row.cols["Volume"] # NaN
  THEN row.cols["Volume"][1]
  ELSE 0

\* int(timestamp.timestamp() * 1000)
TimeOf(row) == row.ts * MsPerSecond

\* the dict appended for one row
ToCandle(row) ==
  [time |-> TimeOf(row),
   open |-> row.cols["Open"][1],
   high |-> row.cols["High"][1],
   low |-> row.cols["Low"][1],
   close |-> row.cols["Close"][1],
   volume |-> VolumeOf(row)]

\* the for loop over df.iterrows(): candles.append in row order
RECURSIVE BuildCandles(_)
BuildCandles(rows) ==
  IF rows = <<>> THEN <<>>
  ELSE <<ToCandle(Head(rows))>> \o BuildCandles(Tail(rows))

\* float(row['Open']) raises TypeError when the flattened labels are
\* duplicated (row['Open'] is then a Series), on the first row iterated.
ConversionRaises(df) == df.dupLabels /\ Len(df.rows) > 0

\* Python's s[start:] for any integer start
SliceFrom(s, start) ==
  LET n == Len(s)
      a == IF start < 0 THEN (IF start + n < 0 THEN 0 ELSE start + n)
           ELSE (IF start > n THEN n ELSE start)
  IN  SubSeq(s, a + 1, n)

\* candles[-limit:] if len(candles) > limit else candles
Truncate(cs, lim) == IF Len(cs) > lim THEN SliceFrom(cs, 0 - lim) ELSE cs

\* ------------------------------------------------- exceptions and responses
NoExc == [type |-> "none", status |-> 0, detail |-> <<>>]
HTTPException(s, d) == [type |-> "HTTPException", status |-> s, detail |-> d]
OtherException(m) == [type |-> "Exception", status |-> 0, detail |-> <<m>>]

Response(s, d, b) == [status |-> s, detail |-> d, body |-> b]

\* ExceptClause with the generic clause alone, which also catches HTTPException
ExceptClause_CatchAll(e) == HTTPException(500, <<"Data Source Error: ">> \o e.detail)

\* the two except clauses: an HTTPException is re-raised as it is, anything
\* else becomes a 500 carrying str(e)
ExceptClause(e) ==
  IF e.type = "HTTPException" THEN e
  ELSE HTTPException(500, <<"Data Source Error: ">> \o e.detail)

\* InvalidTimeframe echoing the normalized key instead of the input
InvalidTimeframe_Normalized(timeframe) ==
  HTTPException(400, <<"Invalid timeframe: ">> \o NormalizeKey(timeframe)
                     \o <<". Supported: ">> \o Supported)

InvalidTimeframe(timeframe) ==
  HTTPException(400, <<"Invalid timeframe: ">> \o timeframe \o <<". Supported: ">> \o Supported)

NoDataFound(t) == HTTPException(404, <<"No data found for ", t>>)

InsufficientData(k) == HTTPException(422, <<"Insufficient historical data for ">> \o k)

\* the framework turns a raised HTTPException into the response
ErrorResponse(e) == Response(e.status, e.detail, <<>>)

\* ------------------------------------------------------------------- state
VARIABLES
  route,      \* per request: "candles" or "health"
  ticker,     \* query parameter ticker
  timeframe,  \* query parameter timeframe
  limit,      \* query parameter limit
  upstream,   \* what yf.download does for this request: returns a table or raises
  pc,         \* position of the request in its handler
  tf_key,     \* local tf_key
  interval,   \* local interval
  period,     \* local period
  df,         \* local df
  candles,    \* local candles
  exc,        \* exception in flight inside the try block
  fetches,    \* the yf.download calls made for the request, in order
  sent,       \* the responses sent for the request, in order
  loop        \* request whose coroutine occupies the event loop, 0 when idle

vars == <<route, ticker, timeframe, limit, upstream, pc, tf_key, interval,
          period, df, candles, exc, fetches, sent, loop>>

inputs == <<route, ticker, timeframe, limit, upstream>>

\* ------------------------------------------------------------ input spaces
Seqs(S, n) == UNION {[1..k -> S] : k \in 0..n}

TfChars == {"Y", "Q", "M", "W", "D", "H", "1", "3", "0", "5",
            "y", "q", "m", "w", "d", "h", " ", "\t"}

KeySpellings ==
  {<<"Y">>, <<"y">>, <<"Q">>, <<"q">>, <<"M">>, <<"m">>, <<"W">>, <<"w">>,
   <<"D">>, <<"d">>, <<"1","H">>, <<"1","h">>, <<"3","0","M">>, <<"3","0","m">>,
   <<"1","5","M">>, <<"1","5","m">>}

\* every string of up to MaxTfLen characters, and every spelling of a key
\* with up to MaxPad whitespace characters on either side
Timeframes ==
  Seqs(TfChars, MaxTfLen)
  \cup {l \o k \o r : l \in Seqs(Whitespace, MaxPad), k \in KeySpellings,
                      r \in Seqs(Whitespace, MaxPad)}

FewTimeframes == {<<" ", "d">>, <<"3","0","m">>, <<"d", "1">>}

Tickers == {"AAPL", "MSFT"}

\* limit is any integer: negative, zero, small, around the minimum series length, default
Limits == {-1, 0, 1, MinCandles, MinCandles + 1, DefaultLimit}
FewLimits == {0, DefaultLimit}

\* the column whose cell is NaN in a row that has one
NanColumns == {"Low", "Volume"}

BadMaps(n) ==
  UNION {[S -> NanColumns] : S \in {T \in SUBSET (1..n) : Cardinality(T) <= MaxBad}}

\* tables with and without a Volume column
Tables ==
  UNION {{MkTable(n, bad, cols, FALSE) :
            bad \in BadMaps(n), cols \in {AllColumns, PriceColumns}} :
         n \in 0..MaxRows}

\* tables whose flattened labels are duplicated (several tickers downloaded)
DupTables ==
  {MkTable(n, bad, AllColumns, TRUE) : n \in {1, MinCandles}, bad \in BadMaps(1)}

Messages == {"timeout", "parse"}

Results == Tables \cup DupTables \cup {MkRaise(m) : m \in Messages}

FewResults ==
  {MkRaise("timeout"),
   MkTable(0, <<>>, AllColumns, FALSE),
   MkTable(MinCandles, <<>>, AllColumns, FALSE)}

\* ---------------------------------------------------------- initial states
Locals ==
  /\ pc = [r \in Reqs |-> "pending"]
  /\ tf_key = [r \in Reqs |-> <<>>]
  /\ interval = [r \in Reqs |-> None]
  /\ period = [r \in Reqs |-> None]
  /\ df = [r \in Reqs |-> NoResult]
  /\ candles = [r \in Reqs |-> <<>>]
  /\ exc = [r \in Reqs |-> NoExc]
  /\ fetches = [r \in Reqs |-> <<>>]
  /\ sent = [r \in Reqs |-> <<>>]
  /\ loop = 0

HealthRequest == [route |-> "health", ticker |-> "", timeframe |-> <<>>, limit |-> 0,
                  upstream |-> NoResult]

CandleRequests(T, K, L, U) ==
  {[route |-> "candles", ticker |-> t, timeframe |-> k, limit |-> l, upstream |-> u] :
     t \in T, k \in K, l \in L, u \in U}

Requests(q) ==
  /\ route = [r \in Reqs |-> q[r].route]
  /\ ticker = [r \in Reqs |-> q[r].ticker]
  /\ timeframe = [r \in Reqs |-> q[r].timeframe]
  /\ limit = [r \in Reqs |-> q[r].limit]
  /\ upstream = [r \in Reqs |-> q[r].upstream]

\* any mix of concurrent requests
Init ==
  /\ \E q \in [Reqs -> CandleRequests({"AAPL"}, {<<" ", "d">>, <<"d", "1">>},
                                       {DefaultLimit}, FewResults)
                        \cup {HealthRequest}] : Requests(q)
  /\ Locals

\* request 1 ranges over the timeframe strings, the others are /health
InitResolve ==
  /\ \E c \in CandleRequests(Tickers, Timeframes, FewLimits, FewResults) :
       Requests([r \in Reqs |-> IF r = 1 THEN c ELSE HealthRequest])
  /\ Locals

\* request 1 ranges over the collaborator's results and the limits
InitNormalize ==
  /\ \E c \in CandleRequests({"MSFT"}, FewTimeframes, Limits, Results) :
       Requests([r \in Reqs |-> IF r = 1 THEN c ELSE HealthRequest])
  /\ Locals

\* ----------------------------------------------------------------- actions
Finish(r, resp) ==
  /\ sent' = [sent EXCEPT ![r] = Append(@, resp)]
  /\ pc' = [pc EXCEPT ![r] = "done"]
  /\ loop' = 0

\* health_check.  The event loop has to be free to take the request and to
\* write its response.
HealthCheck(r) ==
  /\ pc[r] = "pending"
  /\ route[r] = "health"
  /\ loop = 0
  /\ Finish(r, Response(200, <<>>, <<[status |-> "ok"]>>))
  /\ UNCHANGED <<inputs, tf_key, interval, period, df, candles, exc, fetches>>

\* The event loop takes a pending /api/candles request and runs the
\* coroutine get_candles on itself: tf_key, interval, and the 400 raised
\* before the try block.
Resolve(r) ==
  /\ pc[r] = "pending"
  /\ route[r] = "candles"
  /\ loop = 0
  /\ tf_key' = [tf_key EXCEPT ![r] = NormalizeKey(timeframe[r])]
  /\ interval' = [interval EXCEPT ![r] = MapGet(tf_key'[r])]
  /\ IF interval'[r] = None
     THEN Finish(r, ErrorResponse(InvalidTimeframe(timeframe[r])))
     ELSE /\ pc' = [pc EXCEPT ![r] = "period"]
          /\ loop' = r
          /\ UNCHANGED sent
  /\ UNCHANGED <<inputs, period, df, candles, exc, fetches>>

SelectPeriod(r) ==
  /\ pc[r] = "period"
  /\ period' = [period EXCEPT ![r] = PeriodFor(tf_key[r])]
  /\ pc' = [pc EXCEPT ![r] = "fetch"]
  /\ UNCHANGED <<inputs, tf_key, interval, df, candles, exc, fetches, sent, loop>>

\* the call yf.download(ticker, period=period, interval=interval, ...): a
\* plain call inside the coroutine, so the loop stays occupied by r
IssueFetch(r) ==
  /\ pc[r] = "fetch"
  /\ fetches' = [fetches EXCEPT ![r] =
                   Append(@, [ticker |-> ticker[r], interval |-> interval[r],
                              period |-> period[r]])]
  /\ pc' = [pc EXCEPT ![r] = "fetching"]
  /\ UNCHANGED <<inputs, tf_key, interval, period, df, candles, exc, sent, loop>>

\* yf.download returns a table
FetchReturn(r) ==
  /\ pc[r] = "fetching"
  /\ upstream[r].kind = "table"
  /\ df' = [df EXCEPT ![r] = upstream[r]]
  /\ pc' = [pc EXCEPT ![r] = "check_empty"]
  /\ UNCHANGED <<inputs, tf_key, interval, period, candles, exc, fetches, sent, loop>>

\* yf.download raises
FetchRaise(r) ==
  /\ pc[r] = "fetching"
  /\ upstream[r].kind = "raise"
  /\ exc' = [exc EXCEPT ![r] = OtherException(upstream[r].msg)]
  /\ pc' = [pc EXCEPT ![r] = "except"]
  /\ UNCHANGED <<inputs, tf_key, interval, period, df, candles, fetches, sent, loop>>

\* if df.empty: raise HTTPException(404, ...)
CheckEmpty(r) ==
  /\ pc[r] = "check_empty"
  /\ IF IsEmpty(df[r])
     THEN /\ exc' = [exc EXCEPT ![r] = NoDataFound(ticker[r])]
          /\ pc' = [pc EXCEPT ![r] = "except"]
     ELSE /\ pc' = [pc EXCEPT ![r] = "dropna"]
          /\ UNCHANGED exc
  /\ UNCHANGED <<inputs, tf_key, interval, period, df, candles, fetches, sent, loop>>

\* the column flattening and df = df.dropna()
DropNulls(r) ==
  /\ pc[r] = "dropna"
  /\ df' = [df EXCEPT ![r] = DropNa(@)]
  /\ pc' = [pc EXCEPT ![r] = "iterate"]
  /\ UNCHANGED <<inputs, tf_key, interval, period, candles, exc, fetches, sent, loop>>

\* candles = [] and the loop over df.iterrows()
Iterate(r) ==
  /\ pc[r] = "iterate"
  /\ IF ConversionRaises(df[r])
     THEN /\ exc' = [exc EXCEPT ![r] = OtherException("TypeError")]
          /\ pc' = [pc EXCEPT ![r] = "except"]
          /\ UNCHANGED candles
     ELSE /\ candles' = [candles EXCEPT ![r] = BuildCandles(df[r].rows)]
          /\ pc' = [pc EXCEPT ![r] = "check_min"]
          /\ UNCHANGED exc
  /\ UNCHANGED <<inputs, tf_key, interval, period, df, fetches, sent, loop>>

\* CheckMin counting the rows fetched instead of the candles built
CheckMin_CountsFetched(r) ==
  /\ pc[r] = "check_min"
  /\ IF Len(upstream[r].rows) < MinCandles
     THEN /\ exc' = [exc EXCEPT ![r] = InsufficientData(tf_key[r])]
          /\ pc' = [pc EXCEPT ![r] = "except"]
     ELSE /\ pc' = [pc EXCEPT ![r] = "return"]
          /\ UNCHANGED exc
  /\ UNCHANGED <<inputs, tf_key, interval, period, df, candles, fetches, sent, loop>>

\* if len(candles) < 10: raise HTTPException(422, ...)
CheckMin(r) ==
  /\ pc[r] = "check_min"
  /\ IF Len(candles[r]) < MinCandles
     THEN /\ exc' = [exc EXCEPT ![r] = InsufficientData(tf_key[r])]
          /\ pc' = [pc EXCEPT ![r] = "except"]
     ELSE /\ pc' = [pc EXCEPT ![r] = "return"]
          /\ UNCHANGED exc
  /\ UNCHANGED <<inputs, tf_key, interval, period, df, candles, fetches, sent, loop>>

\* return candles[-limit:] if len(candles) > limit else candles
Return(r) ==
  /\ pc[r] = "return"
  /\ Finish(r, Response(200, <<>>, Truncate(candles[r], limit[r])))
  /\ UNCHANGED <<inputs, tf_key, interval, period, df, candles, exc, fetches>>

\* Except retrying the fetch once after an exception that is not an HTTPException
Except_Retry(r) ==
  /\ pc[r] = "except"
  /\ IF exc[r].type = "Exception" /\ Len(fetches[r]) < 2
     THEN /\ pc' = [pc EXCEPT ![r] = "fetch"]
          /\ UNCHANGED <<sent, loop>>
     ELSE Finish(r, ErrorResponse(ExceptClause(exc[r])))
  /\ UNCHANGED <<inputs, tf_key, interval, period, df, candles, exc, fetches>>

\* except HTTPException as he: raise he / except Exception as e: raise 500
Except(r) ==
  /\ pc[r] = "except"
  /\ Finish(r, ErrorResponse(ExceptClause(exc[r])))
  /\ UNCHANGED <<inputs, tf_key, interval, period, df, candles, exc, fetches>>

Next ==
  \E r \in Reqs :
    \/ HealthCheck(r)
    \/ Resolve(r)
    \/ SelectPeriod(r)
    \/ IssueFetch(r)
    \/ FetchReturn(r)
    \/ FetchRaise(r)
    \/ CheckEmpty(r)
    \/ DropNulls(r)
    \/ Iterate(r)
    \/ CheckMin(r)
    \/ Return(r)
    \/ Except(r)

Spec == Init /\ [][Next]_vars
SpecResolve == InitResolve /\ [][Next]_vars
SpecNormalize == InitNormalize /\ [][Next]_vars

\* ================================================================== claims
\* The table of section 4.1 written out, with every letter-case spelling of
\* each key.
KeyTable ==
  { [key |-> <<"Y">>, spellings |-> {<<"Y">>, <<"y">>}, interval |-> "3mo", period |-> "max"],
    [key |-> <<"Q">>, spellings |-> {<<"Q">>, <<"q">>}, interval |-> "3mo", period |-> "max"],
    [key |-> <<"M">>, spellings |-> {<<"M">>, <<"m">>}, interval |-> "1mo", period |-> "max"],
    [key |-> <<"W">>, spellings |-> {<<"W">>, <<"w">>}, interval |-> "1wk", period |-> "10y"],
    [key |-> <<"D">>, spellings |-> {<<"D">>, <<"d">>}, interval |-> "1d", period |-> "2y"],
    [key |-> <<"1","H">>, spellings |-> {<<"1","H">>, <<"1","h">>},
     interval |-> "1h", period |-> "730d"],
    [key |-> <<"3","0","M">>, spellings |-> {<<"3","0","M">>, <<"3","0","m">>},
     interval |-> "30m", period |-> "30d"],
    [key |-> <<"1","5","M">>, spellings |-> {<<"1","5","M">>, <<"1","5","m">>},
     interval |-> "15m", period |-> "30d"] }

AllSpaces(s) == \A i \in 1..Len(s) : s[i] \in {" ", "\t"}

\* s is a spelling of the key of entry e with whitespace around it
Spells(s, e) ==
  \E i \in 1..(Len(s) + 1), j \in 0..Len(s) :
    /\ AllSpaces(SubSeq(s, 1, i - 1))
    /\ SubSeq(s, i, j) \in e.spellings
    /\ AllSpaces(SubSeq(s, j + 1, Len(s)))

Recognized(s) == \E e \in KeyTable : Spells(s, e)

EntryOf(s) == CHOOSE e \in KeyTable : Spells(s, e)

Candle(r) == route[r] = "candles"

Resolved(r) == pc[r] # "pending"

Fetched(r) == pc[r] \notin {"pending", "period", "fetch"}

\* C1: a request whose timeframe is a key of the table in any letter case,
\* with or without surrounding whitespace, resolves the interval and the
\* period of that key's row, and its fetch is called with exactly those.
C1_ResolvesTablePair ==
  \A r \in Reqs : \A e \in KeyTable :
    (Candle(r) /\ Resolved(r) /\ Spells(timeframe[r], e)) =>
       /\ interval[r] = e.interval
       /\ (pc[r] = "done" => sent[r][1].status # 400)
       /\ (pc[r] # "period" => period[r] = e.period)
       /\ (Fetched(r) =>
             fetches[r] = <<[ticker |-> ticker[r], interval |-> e.interval,
                             period |-> e.period]>>)

C1_Witness ==
  \E r \in Reqs :
    /\ timeframe[r] = <<" ", "3", "0", "m", "\t">>
    /\ fetches[r] = <<[ticker |-> ticker[r], interval |-> "30m", period |-> "30d"]>>

\* C2: a request whose timeframe is not a key of the table (after trimming
\* and upper-casing) is answered with 400, a detail that repeats the
\* timeframe as it was sent and lists Y, Q, M, W, D, 1H, 30M, 15M, for any
\* ticker and limit, and goes no further than resolution.
C2_RejectsUnknownTimeframe ==
  \A r \in Reqs :
    (Candle(r) /\ Resolved(r) /\ ~Recognized(timeframe[r])) =>
       /\ pc[r] = "done"
       /\ fetches[r] = <<>>
       /\ sent[r] = << [status |-> 400,
                        detail |-> <<"Invalid timeframe: ">> \o timeframe[r]
                                   \o <<". Supported: ",
                                        "Y", ", ", "Q", ", ", "M", ", ", "W", ", ",
                                        "D", ", ", "1", "H", ", ",
                                        "3", "0", "M", ", ", "1", "5", "M">>,
                        body |-> <<>>] >>

C2_Witness ==
  \E r \in Reqs :
    /\ timeframe[r] = <<" ", "H">>
    /\ ticker[r] = "MSFT"
    /\ limit[r] = 0
    /\ pc[r] = "done"
    /\ sent[r][1].status = 400
    /\ SubSeq(sent[r][1].detail, 2, 3) = <<" ", "H">>

\* rows of a table that have no missing price field
ValidRows(t) ==
  {i \in 1..Len(t.rows) : \A c \in PriceColumns : t.rows[i].cols[c] # <<>>}

Answered(r, code) == pc[r] = "done" /\ sent[r][1].status = code

\* C3: a 200 response to a request with limit K >= 0 over a normalized
\* series of length L has length min(L, K): the whole series when L <= K,
\* its last K candles in order when L > K.
C3_TruncatesToLimit ==
  \A r \in Reqs :
    (Candle(r) /\ Answered(r, 200) /\ limit[r] >= 0) =>
       LET L == Len(candles[r])
           K == limit[r]
           b == sent[r][1].body
       IN  /\ Len(b) = (IF L <= K THEN L ELSE K)
           /\ (L <= K => b = candles[r])
           /\ (L > K => b = SubSeq(candles[r], L - K + 1, L))

\* C4: while the fetch of one request is outstanding, the server can take and
\* serve any other pending request, /health or /api/candles.
C4_ServesWhileFetching ==
  \A r \in Reqs : \A q \in Reqs \ {r} :
    (pc[r] = "fetching" /\ pc[q] = "pending") =>
       ENABLED (HealthCheck(q) \/ Resolve(q))

\* C5: once the candles of a request are built, every row of the fetched
\* table that has its four price fields, and no Volume or a NaN Volume, has
\* a candle with volume 0, and the candles number the rows that have their
\* four price fields.
C5_VolumelessRowKept ==
  \A r \in Reqs :
    (Candle(r) /\ pc[r] = "check_min") =>
       /\ \A i \in ValidRows(upstream[r]) :
            LET row == upstream[r].rows[i]
            IN  ("Volume" \notin DOMAIN row.cols \/ row.cols["Volume"] = <<>>) =>
                   \E j \in 1..Len(candles[r]) :
                      /\ candles[r][j].time = row.ts * 1000
                      /\ candles[r][j].volume = 0
       /\ Len(candles[r]) = Cardinality(ValidRows(upstream[r]))

\* C6: a /api/candles request has at most one response, and exactly one when
\* it has ended, with status 200, 400, 404, 422 or 500; an exception that is
\* not an HTTPException ends as 500 'Data Source Error: <message>', and a
\* 404 or 422 raised inside the try block ends with its own status and
\* detail.
C6_OneResponsePerRequest ==
  \A r \in Reqs :
    Candle(r) =>
       /\ Len(sent[r]) = (IF pc[r] = "done" THEN 1 ELSE 0)
       /\ (pc[r] = "done" =>
             /\ sent[r][1].status \in {200, 400, 404, 422, 500}
             /\ (exc[r].type = "Exception" =>
                   sent[r][1] = [status |-> 500,
                                 detail |-> <<"Data Source Error: ">> \o exc[r].detail,
                                 body |-> <<>>])
             /\ (exc[r].type = "HTTPException" =>
                   /\ exc[r].status \in {404, 422}
                   /\ sent[r][1] = [status |-> exc[r].status, detail |-> exc[r].detail,
                                    body |-> <<>>])
             /\ (exc[r].type = "none" => sent[r][1].status \in {200, 400})
             /\ (upstream[r].kind = "raise" /\ fetches[r] # <<>> =>
                   sent[r][1].detail = <<"Data Source Error: ", upstream[r].msg>>))

C6_Witness ==
  \E r \in Reqs :
    /\ pc[r] = "done"
    /\ upstream[r].kind = "table"
    /\ exc[r].type = "Exception"
    /\ sent[r] = <<[status |-> 500, detail |-> <<"Data Source Error: ", "TypeError">>,
                    body |-> <<>>]>>

\* C7: a request with a valid timeframe whose fetch returns a table of zero
\* rows ends with 404 'No data found for <ticker>', and never reaches the
\* dropping or the counting of rows.
C7_EmptyResultIs404 ==
  \A r \in Reqs :
    (Candle(r) /\ upstream[r].kind = "table" /\ Len(upstream[r].rows) = 0
       /\ Resolved(r) /\ Recognized(timeframe[r])) =>
       /\ pc[r] \notin {"dropna", "iterate", "check_min", "return"}
       /\ (pc[r] = "done" =>
             sent[r] = <<[status |-> 404, detail |-> <<"No data found for ", ticker[r]>>,
                          body |-> <<>>]>>)

C7_Witness ==
  \E r \in Reqs :
    /\ upstream[r].kind = "table"
    /\ Len(upstream[r].rows) = 0
    /\ Len(fetches[r]) = 1
    /\ sent[r] = <<[status |-> 404, detail |-> <<"No data found for ", "MSFT">>,
                    body |-> <<>>]>>

C9_OneCandlePerValidRow ==
  \A r \in Reqs :
    (Candle(r) /\ pc[r] \in {"check_min", "return"} /\ ~upstream[r].dupLabels
       /\ Cardinality(ValidRows(upstream[r])) >= 10
       /\ \A i \in 1..(Len(upstream[r].rows) - 1) :
            upstream[r].rows[i].ts < upstream[r].rows[i + 1].ts) =>
       /\ Len(candles[r]) = Cardinality(ValidRows(upstream[r]))
       /\ \A j \in 1..(Len(candles[r]) - 1) : candles[r][j].time < candles[r][j + 1].time

\* C10: a request makes at most one fetch, makes it only once its timeframe
\* has resolved to a key of the table (so none when the timeframe is
\* unrecognized); a request that has ended after its fetch failed or returned
\* nothing has made exactly one.
C10_AtMostOneFetch ==
  \A r \in Reqs :
    /\ Len(fetches[r]) <= 1
    /\ (fetches[r] # <<>> => Candle(r) /\ Recognized(timeframe[r]) /\ interval[r] # "None")
    /\ (pc[r] \in {"pending", "period", "fetch"} => fetches[r] = <<>>)
    /\ (Candle(r) /\ pc[r] = "done" /\ sent[r][1].status \in {404, 500} =>
          Len(fetches[r]) = 1)

\* two requests whose fetches failed or came back empty, each fetched once
C10_Witness ==
  \E r \in Reqs : \E q \in Reqs \ {r} :
    /\ Answered(r, 500) /\ upstream[r].kind = "raise" /\ Len(fetches[r]) = 1
    /\ Answered(q, 404) /\ Len(fetches[q]) = 1

====
